---- MODULE Spec2Model ----
(***************************************************************************)
(* EspWifiProbeSniffer: the promiscuous-mode receive callback, the probe   *)
(* request decoder and its Information-Element parser (src/src/main.cpp),  *)
(* as a state machine.  A frame is a sequence of bytes (C index i is       *)
(* element i + 1 of the sequence); strings are TLA+ strings, except the    *)
(* SSID, which is the sequence of its character codes.                     *)
(***************************************************************************)
EXTENDS Integers, Sequences, FiniteSets, TLC

(* ------------------------------------------------------------------ *)
(* Program constants                                                   *)
(* ------------------------------------------------------------------ *)
MAX_VENDOR_IES == 3
MAX_IES == 15
WIFI_FRAME_TYPE_MANAGEMENT == 0
WIFI_FRAME_SUBTYPE_PROBE_REQ == 4
IE_SSID == 0
IE_SUPPORTED_RATES == 1
IE_EXTENDED_RATES == 50
IE_HT_CAPABILITIES == 45
IE_VHT_CAPABILITIES == 191
IE_VENDOR_SPECIFIC == 221
FREQ_2_4GHZ_BASE == 2412
\* sizeof(wifi_ieee80211_mac_hdr_t): 2+2 bytes of bit-fields, 3 addresses,
\* 2 bytes of sequence control, addr4, padded to the 4-byte alignment of the
\* unsigned bit-fields.
HdrSize == 32
\* the fixed fields extract_information_elements skips
FixedFieldsLen == 12
\* sizeof information_element_t.value and vendor_ie_t.payload
ValueCap == 64
\* the capacity of supported_rates / extended_rates
RatesCap == 16
\* the longest SSID element that is decoded
SsidMax == 32
\* frame_to_hex's cap, and the cap parse_probe_request applies before it
HexCap == 32
HexPreCap == 64
HtMinLen == 26
VhtMinLen == 12
\* minimum gap between two decodes, in ms
MinGapMs == 10
\* setup() delays this long before the callback is registered
SetupDelayMs == 1000
\* the low 16 bits of the chip id (ESP.getEfuseMac())
ChipIdLow == 4660
MAX_CHANNELS == 13
CHANNEL_SWITCH_INTERVAL == 500
RESTART_INTERVAL == 3600000
\* loop() ends with delay(10); a restart is preceded by delay(1000)
LoopDelayMs == 10
\* loop() prints the statistics when more than this many ms have passed
StatsIntervalMs == 30000

(* ------------------------------------------------------------------ *)
(* Bounds of the model                                                 *)
(* ------------------------------------------------------------------ *)
\* the receive callback runs at most this many times
MaxPackets == 2
\* millis() advances at most this many ticks of TickMs
MaxTicks == 3
TickMs == 5
\* a frame of the repeated family holds at most this many copies of one IE
MaxRepeat == 16
\* frames are also delivered with up to this many bytes cut from the end
MaxCut == 2
\* loop() is followed for this many ms after setup()
MaxUptimeMs == 15000
\* one pass of loop() takes up to this many times its delay(10)
MaxLoopLag == 2

(* ------------------------------------------------------------------ *)
(* Bytes, bits and text                                                *)
(* ------------------------------------------------------------------ *)
Min(a, b) == IF a < b THEN a ELSE b

\* frame[i] of the C code; -1 stands for a byte outside the buffer
ByteAt(s, i) == IF i >= 0 /\ i < Len(s) THEN s[i + 1] ELSE -1

\* the n bytes of s from C index i on
Bytes(s, i, n) == [k \in 1..n |-> ByteAt(s, i + k - 1)]

\* a little-endian 16-bit field at C index i
Le16(s, i) == ByteAt(s, i) + 256 * ByteAt(s, i + 1)

HexLower == <<"0","1","2","3","4","5","6","7","8","9","a","b","c","d","e","f">>
HexUpper == <<"0","1","2","3","4","5","6","7","8","9","A","B","C","D","E","F">>

\* sprintf "%02x" and "%02X" of one byte
Hex2(b) == HexLower[(b \div 16) + 1] \o HexLower[(b % 16) + 1]
Hex2U(b) == HexUpper[(b \div 16) + 1] \o HexUpper[(b % 16) + 1]

IsPrintable(c) == c >= 32 /\ c <= 126

\* the strings of ss joined in order (by halves, to keep the recursion shallow)
RECURSIVE ConcatStr(_)
ConcatStr(ss) ==
  IF ss = <<>> THEN ""
  ELSE IF Len(ss) = 1 THEN ss[1]
  ELSE ConcatStr(SubSeq(ss, 1, Len(ss) \div 2))
       \o ConcatStr(SubSeq(ss, (Len(ss) \div 2) + 1, Len(ss)))

Digits == <<"0","1","2","3","4","5","6","7","8","9">>

\* String(n) of a non-negative number
RECURSIVE Dec(_)
Dec(n) == IF n < 10 THEN Digits[n + 1] ELSE Dec(n \div 10) \o Digits[(n % 10) + 1]

(* ------------------------------------------------------------------ *)
(* wifi_promiscuous_rx: the admission filter                           *)
(* ------------------------------------------------------------------ *)
\* (frame_ctrl & 0x0C) >> 2 and (frame_ctrl & 0xF0) >> 4
FrameType(fc) == (fc \div 4) % 4
FrameSubtype(fc) == (fc \div 16) % 16

\* mutant: the subtype is not compared
IsProbeRequest_TypeOnly(fc) == FrameType(fc) = WIFI_FRAME_TYPE_MANAGEMENT

IsProbeRequest(fc) ==
  /\ FrameType(fc) = WIFI_FRAME_TYPE_MANAGEMENT
  /\ FrameSubtype(fc) = WIFI_FRAME_SUBTYPE_PROBE_REQ

\* mutant: a gap of exactly 10 ms is enough
RateLimitOpen_Inclusive(t, last) == t - last >= MinGapMs

\* millis() - last_process > 10
RateLimitOpen(t, last) == t - last > MinGapMs

\* parse_probe_request's early return
TooShort(len) == len < HdrSize

(* ------------------------------------------------------------------ *)
(* extract_information_elements: one iteration of the IE loop          *)
(* ------------------------------------------------------------------ *)
\* the while condition
LoopCond(offset, payload_len, ies_count) ==
  offset + 2 < payload_len /\ ies_count < MAX_IES

\* mutant: the bound is off by one
Overruns_OffByOne(offset, element_length, payload_len) ==
  offset + 2 + element_length > payload_len + 1

\* the break: the element's value does not fit in the payload
Overruns(offset, element_length, payload_len) ==
  offset + 2 + element_length > payload_len

CopyLen(element_length) ==
  IF element_length > ValueCap THEN ValueCap ELSE element_length

\* the entry stored in ies_raw: value holds the bytes that were copied
RawIe(payload, offset) ==
  LET element_length == ByteAt(payload, offset + 1)
  IN  [id |-> ByteAt(payload, offset),
       len |-> element_length,
       value |-> Bytes(payload, offset + 2, CopyLen(element_length))]

\* case IE_SSID
SsidAccepted(element_length) == element_length > 0 /\ element_length <= SsidMax

\* mutant: every byte is kept
DecodeSsid_NoFilter(payload, offset, element_length) ==
  IF SsidAccepted(element_length)
  THEN Bytes(payload, offset + 2, element_length)
  ELSE <<>>

DecodeSsid(payload, offset, element_length) ==
  IF SsidAccepted(element_length)
  THEN SelectSeq(Bytes(payload, offset + 2, element_length), IsPrintable)
  ELSE <<>>

\* case IE_SUPPORTED_RATES / IE_EXTENDED_RATES: how many rates one element adds
RatesTaken(element_length, count) ==
  IF element_length <= RatesCap THEN Min(element_length, RatesCap - count) ELSE 0

\* rate & 0x7F
MaskRate(b) == b % 128

AppendRates(list, payload, offset, element_length) ==
  list \o [k \in 1..RatesTaken(element_length, Len(list)) |->
             MaskRate(ByteAt(payload, offset + 2 + k - 1))]

\* mutant: the length is not checked
HtDetected_Always(element_length) == TRUE

\* case IE_HT_CAPABILITIES / IE_VHT_CAPABILITIES
HtDetected(element_length) == element_length >= HtMinLen
VhtDetected(element_length) == element_length >= VhtMinLen

\* case IE_VENDOR_SPECIFIC
\* mutant: the capacity is not checked
VendorAccepted_NoCap(element_length, vendor_ies_count) == element_length >= 3

VendorAccepted(element_length, vendor_ies_count) ==
  element_length >= 3 /\ vendor_ies_count < MAX_VENDOR_IES

\* mutant: the four bytes of OUI and type are not subtracted
VendorPayloadLen_NoHeader(element_length) == Min(element_length, ValueCap)

VendorPayloadLen(element_length) ==
  Min(IF element_length > 4 THEN element_length - 4 ELSE 0, ValueCap)

\* mutant: the type is read one byte early
VendorType_OffByOne(payload, offset, element_length) ==
  IF element_length > 3 THEN ByteAt(payload, offset + 4) ELSE 0

VendorType(payload, offset, element_length) ==
  IF element_length > 3 THEN ByteAt(payload, offset + 5) ELSE 0

VendorIe(payload, offset, element_length) ==
  [oui |-> Bytes(payload, offset + 2, 3),
   vendor_type |-> VendorType(payload, offset, element_length),
   payload_len |-> VendorPayloadLen(element_length),
   payload |-> Bytes(payload, offset + 6, VendorPayloadLen(element_length)),
   meaning |-> ""]

\* the switch on element_id, applied to the packet record
Dispatch(pk, payload, offset) ==
  LET id == ByteAt(payload, offset)
      element_length == ByteAt(payload, offset + 1)
  IN  CASE id = IE_SSID ->
             [pk EXCEPT !.ssid = DecodeSsid(payload, offset, element_length),
                        !.ssid_hidden =
                           IF SsidAccepted(element_length) THEN @ ELSE FALSE]
        [] id = IE_SUPPORTED_RATES ->
             [pk EXCEPT !.supported_rates =
                           AppendRates(@, payload, offset, element_length)]
        [] id = IE_EXTENDED_RATES ->
             [pk EXCEPT !.extended_rates =
                           AppendRates(@, payload, offset, element_length)]
        [] id = IE_HT_CAPABILITIES ->
             IF HtDetected(element_length)
             THEN [pk EXCEPT !.ht_present = TRUE, !.mcs_set = "0-7"]
             ELSE pk
        [] id = IE_VHT_CAPABILITIES ->
             IF VhtDetected(element_length)
             THEN [pk EXCEPT !.vht_capabilities = TRUE]
             ELSE pk
        [] id = IE_VENDOR_SPECIFIC ->
             IF VendorAccepted(element_length, Len(pk.vendor_ies))
             THEN [pk EXCEPT !.vendor_ies =
                                Append(@, VendorIe(payload, offset, element_length))]
             ELSE pk
        [] OTHER -> pk

\* the body of one iteration that does not break: store the raw IE, dispatch
ProcessIe(pk, payload, offset) ==
  Dispatch([pk EXCEPT !.ies_raw =
                         IF Len(@) < MAX_IES
                         THEN Append(@, RawIe(payload, offset)) ELSE @],
           payload, offset)

\* mutant: the cursor does not move
NextOffset_Stuck(payload, offset) == offset

\* offset += 2 + element_length
NextOffset(payload, offset) == offset + 2 + ByteAt(payload, offset + 1)

\* The payload indices one iteration reads (the while condition holds).
RawReads(offset, element_length) ==
  {offset + 2 + k : k \in 0..(CopyLen(element_length) - 1)}

DispatchReads(pk, payload, offset) ==
  LET id == ByteAt(payload, offset)
      element_length == ByteAt(payload, offset + 1)
  IN  CASE id = IE_SSID ->
             IF SsidAccepted(element_length)
             THEN {offset + 2 + i : i \in 0..(element_length - 1)} ELSE {}
        [] id = IE_SUPPORTED_RATES ->
             {offset + 2 + i :
                i \in 0..(RatesTaken(element_length, Len(pk.supported_rates)) - 1)}
        [] id = IE_EXTENDED_RATES ->
             {offset + 2 + i :
                i \in 0..(RatesTaken(element_length, Len(pk.extended_rates)) - 1)}
        [] id = IE_VENDOR_SPECIFIC ->
             IF VendorAccepted(element_length, Len(pk.vendor_ies))
             THEN {offset + 2, offset + 3, offset + 4}
                  \cup (IF element_length > 3 THEN {offset + 5} ELSE {})
                  \cup {offset + 6 + k :
                          k \in 0..(VendorPayloadLen(element_length) - 1)}
             ELSE {}
        [] OTHER -> {}

IeReads(pk, payload, offset) ==
  LET element_length == ByteAt(payload, offset + 1)
  IN  {offset, offset + 1}
      \cup (IF Overruns(offset, element_length, Len(payload)) THEN {}
            ELSE RawReads(offset, element_length)
                 \cup DispatchReads(pk, payload, offset))

(* ------------------------------------------------------------------ *)
(* parse_probe_request: identifiers, header decoding, device inference *)
(* ------------------------------------------------------------------ *)
\* get_current_timestamp() without BUILD_TIME_UNIX: millis()
GetCurrentTimestamp(t) == t

\* mutant: the counter is not advanced
PostIncrement_Stuck(counter) == counter

\* packet_counter++ on a uint32_t; a session decodes at most one frame per
\* 10 ms for an hour, far fewer than 2^32
PostIncrement(counter) == counter + 1

\* the fields sprintf prints, in order
GeneratePacketId(t, counter) ==
  <<GetCurrentTimestamp(t), counter % 65536, (counter \div 65536) % 65536,
    ChipIdLow, GetCurrentTimestamp(t), t % 65536>>

GenerateCaptureId(t) ==
  <<GetCurrentTimestamp(t), ChipIdLow, 0,
    16384 + ((GetCurrentTimestamp(t) \div 65536) % 4096),
    GetCurrentTimestamp(t), ChipIdLow>>

\* the fallback timestamp: hours, minutes, seconds, milliseconds of millis()
GetIso8601Timestamp(t) ==
  <<(t \div 3600000) % 24, (t \div 60000) % 60, (t \div 1000) % 60, t % 1000>>

ChannelToFreq(ch) == (FREQ_2_4GHZ_BASE + ((ch - 1) * 5)) % 65536

\* frame_to_hex(frame, len): how many bytes it encodes, and the text
FrameHexLen(len) == IF len > HexCap THEN HexCap ELSE len

FrameToHex(frame, len) ==
  ConcatStr([i \in 1..FrameHexLen(len) |-> Hex2(ByteAt(frame, i - 1))])

\* hex_len of parse_probe_request
HexPreLen(len) == IF len > HexPreCap THEN HexPreCap ELSE len

MacToString(mac) ==
  Hex2(mac[1]) \o ":" \o Hex2(mac[2]) \o ":" \o Hex2(mac[3]) \o ":" \o
  Hex2(mac[4]) \o ":" \o Hex2(mac[5]) \o ":" \o Hex2(mac[6])

\* (mac[0] & 0x02) != 0
IsRandomizedMac(mac) == (mac[1] \div 2) % 2 = 1

known_vendors ==
  << <<"00:16:01", "Android">>, <<"00:1B:63", "Apple">>, <<"00:23:12", "Apple">>,
     <<"00:25:00", "Apple">>, <<"28:E0:2C", "Apple">>, <<"3C:15:C2", "Apple">>,
     <<"40:A6:D9", "Apple">>, <<"64:20:9F", "Apple">>, <<"68:96:7B", "Apple">>,
     <<"70:56:81", "Apple">>, <<"7C:6D:62", "Apple">>, <<"88:63:DF", "Apple">>,
     <<"90:B0:ED", "Apple">>, <<"A4:5E:60", "Apple">>, <<"AC:BC:32", "Apple">>,
     <<"BC:52:B7", "Apple">>, <<"D0:A6:37", "Apple">>, <<"E8:8D:28", "Apple">>,
     <<"F0:98:9D", "Apple">>, <<"F4:0F:24", "Apple">>, <<"F8:1E:DF", "Apple">>,
     <<"18:3A:2D", "Samsung">>, <<"1C:62:B8", "Samsung">>, <<"34:23:87", "Samsung">>,
     <<"38:AA:3C", "Samsung">>, <<"40:4E:36", "Samsung">>, <<"5C:0A:5B", "Samsung">>,
     <<"78:1F:DB", "Samsung">>, <<"8C:45:00", "Samsung">>, <<"A0:02:DC", "Samsung">>,
     <<"C8:19:F7", "Samsung">>, <<"E8:50:8B", "Samsung">> >>

\* mutant: the OUI is formatted in lower case
GetVendorFromMac_LowerCase(mac) ==
  LET oui == Hex2(mac[1]) \o ":" \o Hex2(mac[2]) \o ":" \o Hex2(mac[3])
      hits == {i \in 1..Len(known_vendors) : known_vendors[i][1] = oui}
  IN  IF hits = {} THEN "Unknown"
      ELSE known_vendors[CHOOSE i \in hits : \A j \in hits : i <= j][2]

GetVendorFromMac(mac) ==
  LET oui == Hex2U(mac[1]) \o ":" \o Hex2U(mac[2]) \o ":" \o Hex2U(mac[3])
      hits == {i \in 1..Len(known_vendors) : known_vendors[i][1] = oui}
  IN  IF hits = {} THEN "Unknown"
      ELSE known_vendors[CHOOSE i \in hits : \A j \in hits : i <= j][2]

\* memset(&capture, 0, sizeof(capture_data_t))
ZeroPacket ==
  [pkt_id |-> <<>>, channel |-> 0, freq_mhz |-> 0, band |-> "",
   bandwidth_mhz |-> 0, antenna |-> 0, type |-> "", subtype |-> "",
   duration |-> 0, seq_ctrl |-> 0, da |-> <<0, 0, 0, 0, 0, 0>>,
   sa |-> <<0, 0, 0, 0, 0, 0>>, bssid |-> <<0, 0, 0, 0, 0, 0>>,
   rssi_dbm |-> 0, frame_raw_hex |-> "", ssid |-> <<>>, ssid_hidden |-> FALSE,
   supported_rates |-> <<>>, extended_rates |-> <<>>, ht_present |-> FALSE,
   mcs_set |-> "", vht_capabilities |-> FALSE, he_capabilities |-> FALSE,
   vendor_ies |-> <<>>, ies_raw |-> <<>>, mac_randomized |-> FALSE,
   oui |-> "", vendor_inferred |-> "", ie_signature |-> "", confidence |-> 0]

ZeroCapture ==
  [capture_id |-> <<>>, capture_ts |-> <<>>, scanner_id |-> "", firmware |-> "",
   packet |-> ZeroPacket]

\* The frame indices parse_probe_request reads before the IE parser runs:
\* duration_id, sequence_ctrl, addr1..addr3 and frame_to_hex's bytes.
HeaderReads(len) ==
  {2, 3, 22, 23} \cup (4..21) \cup (0..(FrameHexLen(HexPreLen(len)) - 1))

\* lines 313-354: the record before the IE parser runs
DecodeHeader(frame, rssi, channel, capture_id, t, counter) ==
  LET len == Len(frame)
      addr2 == Bytes(frame, 10, 6)
  IN  [capture_id |-> capture_id,
       capture_ts |-> GetIso8601Timestamp(t),
       scanner_id |-> "esp32-node-01",
       firmware |-> "watchtower-v1.2.3",
       packet |->
         [ZeroPacket EXCEPT
            !.pkt_id = GeneratePacketId(t, counter),
            !.channel = channel,
            !.freq_mhz = ChannelToFreq(channel),
            !.band = "2.4GHz",
            !.bandwidth_mhz = 20,
            !.antenna = 0,
            !.type = "management",
            !.subtype = "probe-request",
            !.duration = Le16(frame, 2),
            !.seq_ctrl = Le16(frame, 22) \div 16,
            !.da = Bytes(frame, 4, 6),
            !.sa = addr2,
            !.bssid = Bytes(frame, 16, 6),
            !.rssi_dbm = rssi,
            !.frame_raw_hex = FrameToHex(frame, HexPreLen(len)),
            !.mac_randomized = IsRandomizedMac(addr2),
            !.oui = SubSeq(MacToString(addr2), 1, 8),
            !.vendor_inferred = GetVendorFromMac(addr2)]]

\* lines 374-382: what extract_information_elements resets before its loop
ResetIeFields(pk) ==
  [pk EXCEPT !.ssid = <<>>, !.ssid_hidden = FALSE, !.supported_rates = <<>>,
             !.extended_rates = <<>>, !.ht_present = FALSE,
             !.vht_capabilities = FALSE, !.he_capabilities = FALSE,
             !.vendor_ies = <<>>, !.ies_raw = <<>>]

\* the payload handed to extract_information_elements
PayloadOf(frame) == SubSeq(frame, HdrSize + 1, Len(frame))

(* ------------------------------------------------------------------ *)
(* create_fingerprint and print_capture_data                           *)
(* ------------------------------------------------------------------ *)
OuiLower(oui) == Hex2(oui[1]) \o ":" \o Hex2(oui[2]) \o ":" \o Hex2(oui[3])

RECURSIVE JoinRates(_)
JoinRates(rates) ==
  IF Len(rates) = 1 THEN Dec(rates[1])
  ELSE Dec(Head(rates)) \o "," \o JoinRates(Tail(rates))

\* mutant: the signature starts with the source address's OUI
CreateFingerprint_WithOui(pk) ==
  pk.oui
  \o (IF pk.ht_present THEN "HT+" ELSE "")
  \o ConcatStr([i \in 1..Len(pk.vendor_ies) |->
                  "VENDOR(" \o OuiLower(pk.vendor_ies[i].oui) \o ")+"])
  \o (IF Len(pk.supported_rates) > 0
      THEN "rates(" \o JoinRates(pk.supported_rates) \o ")" ELSE "")

CreateFingerprint(pk) ==
  (IF pk.ht_present THEN "HT+" ELSE "")
  \o ConcatStr([i \in 1..Len(pk.vendor_ies) |->
                  "VENDOR(" \o OuiLower(pk.vendor_ies[i].oui) \o ")+"])
  \o (IF Len(pk.supported_rates) > 0
      THEN "rates(" \o JoinRates(pk.supported_rates) \o ")" ELSE "")

\* The indices of ies_raw[i].value the value_hex loop reads: j < len.
ValueHexReads(ie) == 0..(ie.len - 1)

\* sizeof(information_element_t): id, len, value[64]
IeSize == 2 + ValueCap

\* The byte at distance a from &ies_raw[0] in packet_data_t: the MAX_IES
\* entries (what the memset zeroed and the parser has not written is 0), then
\* ies_count and mac_randomized; what follows are String objects (heap
\* pointers) and, behind the record, other objects: junk.
RawAreaByte(pk, a, junk) ==
  IF a < MAX_IES * IeSize
  THEN LET i == (a \div IeSize) + 1
           r == a % IeSize
       IN  IF i > Len(pk.ies_raw) THEN 0
           ELSE IF r = 0 THEN pk.ies_raw[i].id
           ELSE IF r = 1 THEN pk.ies_raw[i].len
           ELSE IF r - 2 < Len(pk.ies_raw[i].value)
                THEN pk.ies_raw[i].value[r - 1] ELSE 0
  ELSE IF a = MAX_IES * IeSize THEN Len(pk.ies_raw)
  ELSE IF a = MAX_IES * IeSize + 1 THEN (IF pk.mac_randomized THEN 1 ELSE 0)
  ELSE junk

\* ies_raw[i].value[j] as the value_hex loop reads it (i counts from 1): from
\* index 64 on it is whatever lies behind the 64-byte buffer.
ValueByte(pk, i, j, junk) == RawAreaByte(pk, (i - 1) * IeSize + 2 + j, junk)

ValueHex(pk, i, junk) ==
  ConcatStr([k \in 1..pk.ies_raw[i].len |-> Hex2(ValueByte(pk, i, k - 1, junk))])

PayloadHex(v) ==
  ConcatStr([k \in 1..v.payload_len |-> Hex2(v.payload[k])])

\* the JSON document; an absent key is the empty list, a null is [null |-> TRUE]
PrintCaptureData(capture, junk) ==
  LET pk == capture.packet
  IN  [capture_id |-> capture.capture_id,
       capture_ts |-> capture.capture_ts,
       scanner_id |-> capture.scanner_id,
       firmware |-> capture.firmware,
       pkt_id |-> pk.pkt_id,
       radio |-> [channel |-> pk.channel, freq_mhz |-> pk.freq_mhz,
                  band |-> pk.band, bandwidth_mhz |-> pk.bandwidth_mhz,
                  antenna |-> pk.antenna],
       ieee80211 |-> [type |-> pk.type, subtype |-> pk.subtype,
                      duration |-> pk.duration, da |-> MacToString(pk.da),
                      sa |-> MacToString(pk.sa), bssid |-> MacToString(pk.bssid),
                      seq_ctrl |-> pk.seq_ctrl],
       rssi_dbm |-> pk.rssi_dbm,
       frame_raw_hex |-> pk.frame_raw_hex,
       probe |-> [ssid |-> pk.ssid, ssid_hidden |-> pk.ssid_hidden],
       supported_rates |-> pk.supported_rates,
       extended_rates |-> pk.extended_rates,
       ht_capabilities |->
         IF pk.ht_present
         THEN [null |-> FALSE, present |-> TRUE, mcs_set |-> pk.mcs_set]
         ELSE [null |-> TRUE],
       vht_capabilities |->
         IF pk.vht_capabilities THEN [null |-> FALSE, present |-> TRUE]
         ELSE [null |-> TRUE],
       he_capabilities |->
         IF pk.he_capabilities THEN [null |-> FALSE, present |-> TRUE]
         ELSE [null |-> TRUE],
       vendor_ies |->
         [i \in 1..Len(pk.vendor_ies) |->
            [oui |-> OuiLower(pk.vendor_ies[i].oui),
             vendor_type |-> pk.vendor_ies[i].vendor_type,
             payload_hex |-> PayloadHex(pk.vendor_ies[i]),
             meaning |-> pk.vendor_ies[i].meaning]],
       ies_raw |->
         [i \in 1..Len(pk.ies_raw) |->
            [id |-> pk.ies_raw[i].id, len |-> pk.ies_raw[i].len,
             value_hex |-> ValueHex(pk, i, junk)]],
       mac_randomized |-> pk.mac_randomized,
       oui |-> pk.oui,
       vendor_inferred |-> pk.vendor_inferred,
       fingerprint |-> [ie_signature |-> pk.ie_signature,
                        confidence |-> pk.confidence]]

(* ------------------------------------------------------------------ *)
(* The frames the radio delivers                                       *)
(* ------------------------------------------------------------------ *)
Fill(n, b) == [k \in 1..n |-> b]
Ramp(n, first) == [k \in 1..n |-> (first + k - 1) % 256]

\* one Information Element: tag, length, value
Ie(tag, value) == <<tag, Len(value)>> \o value

RECURSIVE Repeat(_, _)
Repeat(s, n) == IF n = 0 THEN <<>> ELSE s \o Repeat(s, n - 1)

Broadcast == <<255, 255, 255, 255, 255, 255>>
AppleAddr == <<0, 27, 99, 17, 34, 51>>
RandomAddr == <<2, 17, 34, 51, 68, 85>>
OtherAddr == <<172, 222, 72, 0, 17, 34>>
SamsungAddr == <<232, 80, 139, 1, 2, 3>>
SrcAddrs == {AppleAddr, RandomAddr, OtherAddr, SamsungAddr}

\* 32 bytes laid out as wifi_ieee80211_mac_hdr_t
MacHeader(fc, sa) ==
  <<fc % 256, fc \div 256, 58, 1>> \o Broadcast \o sa \o Broadcast
  \o <<16, 2>> \o <<0, 0, 0, 0, 0, 0>> \o <<0, 0>>

FixedFields == Fill(FixedFieldsLen, 0)

\* type 0 in bits 3:2, subtype 4 in bits 7:4
ProbeReqFc == WIFI_FRAME_SUBTYPE_PROBE_REQ * 16
FrameCtrls == {ProbeReqFc, 320, 128, 72}

SsidTest == Ie(IE_SSID, <<84, 101, 115, 116>>)
SsidEmpty == Ie(IE_SSID, <<>>)
SsidMixed == Ie(IE_SSID, <<65, 7, 200, 126, 127, 31, 32>>)
Ssid32 == Ie(IE_SSID, Ramp(SsidMax, 65))
Ssid33 == Ie(IE_SSID, Ramp(SsidMax + 1, 65))
Rates4 == Ie(IE_SUPPORTED_RATES, <<130, 132, 11, 22>>)
Rates17 == Ie(IE_SUPPORTED_RATES, Ramp(RatesCap + 1, 129))
ExtRates3 == Ie(IE_EXTENDED_RATES, <<12, 146, 24>>)
ExtRates17 == Ie(IE_EXTENDED_RATES, Ramp(RatesCap + 1, 140))
HtFull == Ie(IE_HT_CAPABILITIES, Fill(HtMinLen, 1))
HtShort == Ie(IE_HT_CAPABILITIES, Fill(HtMinLen - 1, 1))
VhtFull == Ie(IE_VHT_CAPABILITIES, Fill(VhtMinLen, 2))
VhtShort == Ie(IE_VHT_CAPABILITIES, Fill(VhtMinLen - 1, 2))
VendorWps == Ie(IE_VENDOR_SPECIFIC, <<0, 80, 242, 4, 16, 74>>)
VendorOuiOnly == Ie(IE_VENDOR_SPECIFIC, <<0, 23, 242>>)
VendorTyped == Ie(IE_VENDOR_SPECIFIC, <<80, 111, 154, 9>>)
VendorTiny == Ie(IE_VENDOR_SPECIFIC, <<0, 80>>)
VendorLong == Ie(IE_VENDOR_SPECIFIC, Ramp(ValueCap + 5, 1))
DsParam == Ie(3, <<6>>)
LongIe == Ie(255, Ramp(ValueCap + 1, 33))
\* the longest element a length byte can declare
MaxIe == Ie(255, Ramp(255, 1))

IeMenu ==
  {SsidTest, SsidEmpty, SsidMixed, Ssid32, Ssid33, Rates4, Rates17, ExtRates3,
   ExtRates17, HtFull, HtShort, VhtFull, VhtShort, VendorWps, VendorOuiOnly,
   VendorTyped, VendorTiny, VendorLong, DsParam, LongIe}

\* the elements that are also delivered many times over in one frame
RepeatMenu == {SsidTest, SsidEmpty, Rates4, ExtRates3, VendorWps, VendorOuiOnly, DsParam}

\* bodies of up to two elements, and of 3..MaxRepeat copies of one element
PairBodies ==
  {<<>>} \cup IeMenu \cup {a \o b : a \in IeMenu, b \in IeMenu}

RepeatBodies == {Repeat(a, n) : a \in RepeatMenu, n \in 3..MaxRepeat}

\* f with its last k bytes cut
Cut(f, k) == SubSeq(f, 1, Len(f) - Min(k, Len(f)))

ProbeFrame(sa, body) == MacHeader(ProbeReqFc, sa) \o FixedFields \o body

\* frames with no room for an element, cut inside the header or the fixed fields
ShortFrames ==
  {SubSeq(ProbeFrame(AppleAddr, <<>>), 1, n) :
     n \in {0, 1, 2, HdrSize - 1, HdrSize, HdrSize + 1, HdrSize + FixedFieldsLen - 1}}

\* 15 elements, the last one of 255 bytes: rendering its value_hex reads on
\* behind the ies_raw array and behind the record
DeepBody == Repeat(DsParam, MAX_IES - 3) \o Rates4 \o Rates4 \o MaxIe

\* the probe requests the parser is checked on
ParseFrames ==
  ShortFrames
  \cup {Cut(ProbeFrame(AppleAddr, b), k) :
          b \in PairBodies \cup RepeatBodies, k \in 0..MaxCut}
  \cup {ProbeFrame(sa, SsidTest) : sa \in SrcAddrs}
  \cup {ProbeFrame(AppleAddr, DeepBody)}

\* the frames of the whole-system specification
RxBodies ==
  {<<>>, FixedFields \o SsidTest \o Rates4,
   FixedFields \o VendorWps \o HtFull \o <<IE_SSID, 9, 65>>}

RxFrames ==
  {SubSeq(MacHeader(ProbeReqFc, AppleAddr), 1, n) : n \in {1, HdrSize - 1}}
  \cup {MacHeader(fc, AppleAddr) \o FixedFields \o SsidTest :
          fc \in FrameCtrls \ {ProbeReqFc}}
  \cup {MacHeader(ProbeReqFc, AppleAddr) \o b : b \in RxBodies}
  \cup {MacHeader(ProbeReqFc, RandomAddr) \o FixedFields \o SsidTest \o Rates4}
  \cup {MacHeader(ProbeReqFc, AppleAddr) \o FixedFields \o b :
          b \in {SsidMixed \o Rates4, DeepBody}}

\* The callback returns before it looks at the buffer when the packet is not
\* a management packet or the heap is short: one frame stands for all.
UnreadFrames == {MacHeader(ProbeReqFc, AppleAddr) \o FixedFields \o SsidTest \o Rates4}

RssiValues == {-70}
ChannelValues == {1, 13}

\* frame_ctrl as the callback reads it: the first two bytes of the buffer,
\* or anything when the buffer is shorter than that
FrameCtrlRead(f) == IF Len(f) >= 2 THEN {Le16(f, 0)} ELSE FrameCtrls

\* what lies behind a 64-byte value buffer
JunkBytes == {0, 255}

(* ------------------------------------------------------------------ *)
(* State                                                               *)
(* ------------------------------------------------------------------ *)
VARIABLES
  pc,                 \* "idle" | "parse" | "ies" | "emit": where the callback is
  rx,                 \* the latest delivery: packet type, free heap, buffer, rx_ctrl
  now,                \* millis()
  last_process,       \* wifi_promiscuous_rx's static last_process
  stats,              \* stats.total_packets, stats.probe_requests
  packet_counter,     \* packet_counter
  current_capture_id, \* current_capture_id
  capture,            \* parse_probe_request's static capture
  offset,             \* extract_information_elements' offset
  out,                \* the records the latest callback printed
  reads,              \* the indices the latest decode read
  serial,             \* every record printed since setup(), with its input
  current_channel,    \* current_channel
  last_channel_switch, \* last_channel_switch
  last_stats_print,   \* last_stats_print
  startup_time        \* startup_time

vars ==
  <<pc, rx, now, last_process, stats, packet_counter, current_capture_id,
    capture, offset, out, reads, serial, current_channel, last_channel_switch,
    last_stats_print, startup_time>>

\* the state of loop()
hopVars == <<current_channel, last_channel_switch, last_stats_print, startup_time>>

NoReads == [frame |-> {}, payload |-> {}, ie_lo |-> 0, ie_hi |-> 0, value |-> {}]

\* after setup(): nothing received yet
Init ==
  /\ pc = "idle"
  /\ rx = [mgmt |-> FALSE, heap_low |-> FALSE, frame |-> <<>>, frame_ctrl |-> 0,
           rssi |-> 0, channel |-> 0]
  /\ now = SetupDelayMs
  /\ last_process = 0
  /\ stats = [total_packets |-> 0, probe_requests |-> 0, current_channel |-> 1]
  /\ packet_counter = 0
  /\ current_capture_id = GenerateCaptureId(SetupDelayMs)
  /\ capture = ZeroCapture
  /\ offset = 0
  /\ out = <<>>
  /\ reads = NoReads
  /\ serial = <<>>
  /\ current_channel = 1
  /\ last_channel_switch = 0
  /\ last_stats_print = 0
  /\ startup_time = SetupDelayMs

\* millis() advances
Tick ==
  /\ now < SetupDelayMs + MaxTicks * TickMs
  /\ now' = now + TickMs
  /\ UNCHANGED <<pc, rx, last_process, stats, packet_counter, current_capture_id,
                 capture, offset, out, reads, serial, hopVars>>

\* wifi_promiscuous_rx up to the call of parse_probe_request
wifi_promiscuous_rx ==
  /\ pc = "idle"
  /\ stats.total_packets < MaxPackets
  /\ \E mgmt \in BOOLEAN, heap_low \in BOOLEAN,
        rssi \in RssiValues, ch \in ChannelValues :
       \E f \in (IF mgmt /\ ~heap_low THEN RxFrames ELSE UnreadFrames) :
       \E fc \in FrameCtrlRead(f) :
         /\ rx' = [mgmt |-> mgmt, heap_low |-> heap_low, frame |-> f,
                   frame_ctrl |-> fc, rssi |-> rssi, channel |-> ch]
         /\ out' = <<>>
         /\ reads' = NoReads
         /\ IF ~mgmt \/ heap_low
            THEN UNCHANGED <<pc, stats>>
            ELSE /\ stats' = [stats EXCEPT
                                !.total_packets = @ + 1,
                                !.probe_requests =
                                   IF IsProbeRequest(fc) THEN @ + 1 ELSE @]
                 /\ pc' = IF IsProbeRequest(fc) /\ RateLimitOpen(now, last_process)
                          THEN "parse" ELSE "idle"
  /\ UNCHANGED <<now, last_process, packet_counter, current_capture_id,
                 capture, offset, serial, hopVars>>

\* parse_probe_request up to the call of extract_information_elements' loop
parse_probe_request ==
  /\ pc = "parse"
  /\ IF TooShort(Len(rx.frame))
     THEN /\ pc' = "idle"
          /\ last_process' = now
          /\ UNCHANGED <<capture, offset, packet_counter, reads>>
     ELSE /\ capture' =
               LET c == DecodeHeader(rx.frame, rx.rssi, rx.channel,
                                     current_capture_id, now, packet_counter)
               IN  IF Len(rx.frame) > HdrSize
                   THEN [c EXCEPT !.packet = ResetIeFields(@)] ELSE c
          /\ packet_counter' = PostIncrement(packet_counter)
          /\ offset' = IF Len(rx.frame) > HdrSize THEN FixedFieldsLen ELSE 0
          /\ pc' = IF Len(rx.frame) > HdrSize THEN "ies" ELSE "emit"
          /\ reads' = [NoReads EXCEPT !.frame = HeaderReads(Len(rx.frame))]
          /\ UNCHANGED last_process
  /\ UNCHANGED <<rx, now, stats, current_capture_id, out, serial, hopVars>>

\* one evaluation of the while condition and, when it holds, one iteration
extract_information_elements ==
  /\ pc = "ies"
  /\ LET payload == PayloadOf(rx.frame)
         pk == capture.packet
     IN  IF ~LoopCond(offset, Len(payload), Len(pk.ies_raw))
         THEN /\ pc' = "emit"
              /\ reads' = [reads EXCEPT !.payload = {}]
              /\ UNCHANGED <<capture, offset>>
         ELSE /\ reads' = [reads EXCEPT
                             !.payload = IeReads(pk, payload, offset),
                             !.ie_lo = offset,
                             !.ie_hi = NextOffset(payload, offset)]
              /\ IF Overruns(offset, ByteAt(payload, offset + 1), Len(payload))
                 THEN /\ pc' = "emit"
                      /\ UNCHANGED <<capture, offset>>
                 ELSE /\ capture' = [capture EXCEPT
                                       !.packet = ProcessIe(pk, payload, offset)]
                      /\ offset' = NextOffset(payload, offset)
                      /\ pc' = "ies"
  /\ UNCHANGED <<rx, now, last_process, stats, packet_counter,
                 current_capture_id, out, serial, hopVars>>

\* create_fingerprint, print_capture_data, and the return to the callback,
\* which records the time
print_capture_data ==
  /\ pc = "emit"
  /\ \E junk \in JunkBytes :
       LET c == [capture EXCEPT
                   !.packet.ie_signature = CreateFingerprint(capture.packet),
                   !.packet.confidence = 65]
       IN  /\ capture' = c
           /\ out' = <<PrintCaptureData(c, junk)>>
           /\ serial' = Append(serial,
                                [at |-> now, frame |-> rx.frame, rssi |-> rx.rssi,
                                 channel |-> rx.channel,
                                 doc |-> PrintCaptureData(c, junk)])
  /\ reads' = [reads EXCEPT
                 !.payload = {},
                 !.value = UNION {ValueHexReads(capture.packet.ies_raw[i]) :
                                    i \in 1..Len(capture.packet.ies_raw)}]
  /\ pc' = "idle"
  /\ offset' = 0
  /\ last_process' = now
  /\ UNCHANGED <<rx, now, stats, packet_counter, current_capture_id, hopVars>>

\* switch_channel: current_channel++ on a uint8_t, wrapped to 1 above
\* MAX_CHANNELS
\* mutant: no wrap
NextChannel_NoWrap(ch) == (ch + 1) % 256

NextChannel(ch) ==
  IF (ch + 1) % 256 > MAX_CHANNELS THEN 1 ELSE (ch + 1) % 256

\* the tests of loop()
RestartDue(current_time, started) == current_time - started >= RESTART_INTERVAL
SwitchDue(current_time, last) == current_time - last > CHANNEL_SWITCH_INTERVAL
StatsDue(current_time, last) == current_time - last > StatsIntervalMs

\* how long one pass of loop() takes: its delay(10), or more when the pass
\* is held up
LoopPeriods == {LoopDelayMs * k : k \in 1..MaxLoopLag}

\* one pass of loop(): restart after an hour (the statics are initialised
\* anew and setup() runs again), else switch the channel when it is due,
\* print the statistics when they are due, and delay
loop ==
  /\ pc = "idle"
  /\ now < SetupDelayMs + MaxUptimeMs
  /\ LET current_time == now
     IN  IF RestartDue(current_time, startup_time)
         THEN /\ rx' = [mgmt |-> FALSE, heap_low |-> FALSE, frame |-> <<>>,
                        frame_ctrl |-> 0, rssi |-> 0, channel |-> 0]
              /\ now' = SetupDelayMs
              /\ last_process' = 0
              /\ stats' = [total_packets |-> 0, probe_requests |-> 0,
                           current_channel |-> 1]
              /\ packet_counter' = 0
              /\ current_capture_id' = GenerateCaptureId(SetupDelayMs)
              /\ capture' = ZeroCapture
              /\ out' = <<>>
              /\ reads' = NoReads
              /\ serial' = <<>>
              /\ current_channel' = 1
              /\ last_channel_switch' = 0
              /\ last_stats_print' = 0
              /\ startup_time' = SetupDelayMs
         ELSE /\ IF SwitchDue(current_time, last_channel_switch)
                 THEN /\ current_channel' = NextChannel(current_channel)
                      /\ stats' = [stats EXCEPT
                                     !.current_channel = NextChannel(current_channel)]
                      /\ last_channel_switch' = current_time
                 ELSE UNCHANGED <<current_channel, stats, last_channel_switch>>
              /\ last_stats_print' =
                   IF StatsDue(current_time, last_stats_print)
                   THEN current_time ELSE last_stats_print
              /\ \E d \in LoopPeriods : now' = now + d
              /\ UNCHANGED <<rx, last_process, packet_counter, current_capture_id,
                             capture, out, reads, serial, startup_time>>
  /\ UNCHANGED <<pc, offset>>

Next ==
  \/ Tick
  \/ wifi_promiscuous_rx
  \/ parse_probe_request
  \/ extract_information_elements
  \/ print_capture_data

Spec == Init /\ [][Next]_vars

\* loop() on its own: the main task runs loop() again and again.
HopNext == loop

HopSpec == Init /\ [][HopNext]_vars /\ WF_vars(loop)

\* The parser on its own: the callback has just accepted the first probe
\* request after setup() and calls parse_probe_request on it.
ParserInit ==
  /\ pc = "parse"
  /\ \E f \in ParseFrames, rssi \in RssiValues, ch \in ChannelValues :
       rx = [mgmt |-> TRUE, heap_low |-> FALSE, frame |-> f,
             frame_ctrl |-> IF Len(f) >= 2 THEN Le16(f, 0) ELSE ProbeReqFc,
             rssi |-> rssi, channel |-> ch]
  /\ now = SetupDelayMs
  /\ last_process = 0
  /\ stats = [total_packets |-> 1, probe_requests |-> 1, current_channel |-> 1]
  /\ packet_counter = 0
  /\ current_capture_id = GenerateCaptureId(SetupDelayMs)
  /\ capture = ZeroCapture
  /\ offset = 0
  /\ out = <<>>
  /\ reads = NoReads
  /\ serial = <<>>
  /\ current_channel = 1
  /\ last_channel_switch = 0
  /\ last_stats_print = 0
  /\ startup_time = SetupDelayMs

ParserNext ==
  \/ parse_probe_request
  \/ extract_information_elements
  \/ print_capture_data

ParserSpec == ParserInit /\ [][ParserNext]_vars

\* The IE loop is sequential code in the receive callback: while its
\* condition can be evaluated, it is evaluated.
FairParserSpec ==
  ParserInit /\ [][ParserNext]_vars /\ WF_vars(extract_information_elements)

(* ------------------------------------------------------------------ *)
(* Properties                                                          *)
(* ------------------------------------------------------------------ *)
Take(s, n) == SubSeq(s, 1, Min(n, Len(s)))

\* the payload of the delivered frame, and the element at the parser's cursor
CurPayload == SubSeq(rx.frame, HdrSize + 1, Len(rx.frame))
CurTag == CurPayload[offset + 1]
CurLen == CurPayload[offset + 2]
CurValue == SubSeq(CurPayload, offset + 3, offset + 2 + CurLen)

\* a step of the IE loop that parsed the element at the cursor
ParsedStep == pc = "ies" /\ pc' = "ies"

\* the callback has returned and printed a record
Emitted == pc = "idle" /\ Len(out) = 1

\* The element walk as the specification words it: from offset 12, while at
\* least 2 bytes remain, the value fits and fewer than 15 entries are recorded.
RECURSIVE RefCatalogue(_, _, _)
RefCatalogue(p, off, n) ==
  IF off + 2 <= Len(p) /\ n < 15 /\ off + 2 + p[off + 2] <= Len(p)
  THEN <<[id |-> p[off + 1], len |-> p[off + 2],
          value |-> SubSeq(p, off + 3, off + 2 + Min(p[off + 2], 64))]>>
       \o RefCatalogue(p, off + 2 + p[off + 2], n + 1)
  ELSE <<>>

\* where that walk stops
RECURSIVE RefStop(_, _, _)
RefStop(p, off, n) ==
  IF off + 2 <= Len(p) /\ n < 15 /\ off + 2 + p[off + 2] <= Len(p)
  THEN RefStop(p, off + 2 + p[off + 2], n + 1)
  ELSE off

\* an element header is readable at off, and its declared length overruns
TruncatedAt(p, off) == off + 2 <= Len(p) /\ off + 2 + p[off + 2] > Len(p)

\* C1: a record is printed (or being decoded) only for a frame that is at
\* least as long as the MAC header and whose frame control has type 0 and
\* subtype 4; any other frame yields no record.
C1_AdmissionFilter ==
  (out # <<>> \/ pc \in {"ies", "emit"}) =>
    /\ Len(rx.frame) >= HdrSize
    /\ (rx.frame_ctrl \div 4) % 4 = 0
    /\ (rx.frame_ctrl \div 16) % 16 = 4

\* a probe request whose frame control has bits above the subtype set was decoded
C1_Witness == Emitted /\ rx.frame_ctrl = 320

\* C2: at an element whose declared length overruns the payload the loop
\* stops without touching the record, and the record as it stood is printed.
C2_TruncatedHalts ==
  [][ /\ (pc = "ies" /\ TruncatedAt(CurPayload, offset)) =>
           (pc' = "emit" /\ capture' = capture)
      /\ pc = "emit" =>
           /\ Len(out') = 1
           /\ capture'.packet.ies_raw = capture.packet.ies_raw
           /\ capture'.packet.vendor_ies = capture.packet.vendor_ies
           /\ out'[1].probe.ssid = capture.packet.ssid
           /\ out'[1].supported_rates = capture.packet.supported_rates
           /\ out'[1].extended_rates = capture.packet.extended_rates
           /\ Len(out'[1].ies_raw) = Len(capture.packet.ies_raw)
           /\ Len(out'[1].vendor_ies) = Len(capture.packet.vendor_ies)
           /\ (out'[1].ht_capabilities.null = ~capture.packet.ht_present)
           /\ (out'[1].vht_capabilities.null = ~capture.packet.vht_capabilities)
    ]_vars

\* a record with earlier elements was printed for a frame ending in a truncated one
C2_Witness ==
  /\ Emitted
  /\ TruncatedAt(CurPayload, RefStop(CurPayload, 12, 0))
  /\ Len(out[1].ies_raw) >= 1
  /\ out[1].probe.ssid = <<84, 101, 115, 116>>

\* C3: the printed record's catalogue is the walk of the payload from offset
\* 12 for as long as at least 2 bytes remain, the value fits and fewer than 15
\* entries are recorded, a trailing zero-length element included.
C3_CatalogueComplete ==
  Emitted => capture.packet.ies_raw = RefCatalogue(CurPayload, 12, 0)

\* C4: every collection stays within its capacity in every state of a
\* decode, and a frame that exceeds a capacity is still printed.
C4_BoundedCollections ==
  /\ Len(capture.packet.ies_raw) <= 15
  /\ Len(capture.packet.vendor_ies) <= 3
  /\ Len(capture.packet.supported_rates) <= 16
  /\ Len(capture.packet.extended_rates) <= 16
  /\ \A i \in 1..Len(capture.packet.vendor_ies) :
       /\ capture.packet.vendor_ies[i].payload_len <= 64
       /\ Len(capture.packet.vendor_ies[i].payload) =
            capture.packet.vendor_ies[i].payload_len
  /\ \A i \in 1..Len(capture.packet.ies_raw) :
       Len(capture.packet.ies_raw[i].value) <= 64
  /\ Len(capture.packet.ssid) <= 32
  /\ Len(capture.packet.frame_raw_hex) <= 2 * 32
  /\ (pc = "idle" /\ Len(rx.frame) >= HdrSize) => Len(out) = 1

\* a frame with more than 15 elements, more than 3 of them vendor elements
C4_Witness ==
  /\ Emitted
  /\ Len(out[1].ies_raw) = 15
  /\ Len(out[1].vendor_ies) = 3
  /\ Len(RefCatalogue(CurPayload, 12, 0)) = 15
  /\ RefStop(CurPayload, 12, 0) + 2 < Len(CurPayload)

\* C5: every payload index an iteration reads lies below the payload length
\* and inside the element at the cursor, and every frame index the header
\* decoding reads lies below the frame length.
C5_ReadsInBounds ==
  /\ \A i \in reads.payload :
       /\ 0 <= i /\ i < Len(CurPayload)
       /\ reads.ie_lo <= i /\ i < reads.ie_hi
  /\ \A i \in reads.frame : 0 <= i /\ i < Len(rx.frame)

\* an iteration read the OUI, the type and 64 payload bytes of a vendor element
C5_Witness ==
  /\ pc = "ies"
  /\ reads.frame # {}
  /\ ByteAt(CurPayload, reads.ie_lo) = 221
  /\ Cardinality(reads.payload) = 2 + 4 + 64
  /\ reads.ie_hi = offset

\* C6: rendering value_hex reads no index >= 64 of an entry's value buffer.
C6_ValueHexInBounds == \A j \in reads.value : j < 64

\* C7: a Supported Rates or Extended Rates element adds its value bytes, bit
\* 7 cleared, in order, until the list holds 16 entries; only the entries
\* beyond 16 are dropped.
C7_RatesTruncate ==
  [][ /\ (ParsedStep /\ CurTag = 1) =>
           capture'.packet.supported_rates =
             Take(capture.packet.supported_rates
                    \o [k \in 1..CurLen |-> CurValue[k] % 128], 16)
      /\ (ParsedStep /\ CurTag = 50) =>
           capture'.packet.extended_rates =
             Take(capture.packet.extended_rates
                    \o [k \in 1..CurLen |-> CurValue[k] % 128], 16)
    ]_vars

\* C8 as stated: an SSID element decodes to its printable bytes, in order,
\* cut to 32 bytes.
C8_SsidAsStated ==
  [][ (ParsedStep /\ CurTag = 0) =>
        capture'.packet.ssid = Take(SelectSeq(CurValue, IsPrintable), 32)
    ]_vars

\* C8 amended: an SSID element of length 1..32 decodes to its printable
\* bytes, in order; one of length 0 or of more than 32 decodes to the empty
\* SSID; ssid_hidden stays false and the decoded SSID is what is printed.
C8_SsidDecoding ==
  [][ /\ (ParsedStep /\ CurTag = 0) =>
           /\ capture'.packet.ssid =
                IF CurLen >= 1 /\ CurLen <= 32
                THEN SelectSeq(CurValue, LAMBDA c : c >= 32 /\ c <= 126)
                ELSE <<>>
           /\ capture'.packet.ssid_hidden = FALSE
      /\ pc = "emit" =>
           /\ Len(out') = 1
           /\ out'[1].probe.ssid = capture.packet.ssid
           /\ out'[1].probe.ssid_hidden = FALSE
    ]_vars

\* an SSID element of 33 printable bytes was parsed and the printed SSID is empty
C8_Witness ==
  /\ Emitted
  /\ \E i \in 1..Len(capture.packet.ies_raw) :
       capture.packet.ies_raw[i].id = 0 /\ capture.packet.ies_raw[i].len = 33
  /\ out[1].probe.ssid = <<>>
  /\ out[1].probe.ssid_hidden = FALSE

\* C9: a vendor element is appended to the vendor list iff its length is >= 3
\* and the list holds fewer than 3 entries; the entry is the OUI, the type
\* (value byte 3, or 0) and the value from index 4 on cut to 64 bytes; the
\* earlier entries stay, and the element is catalogued either way.
C9_VendorElements ==
  [][ (ParsedStep /\ CurTag = 221) =>
        /\ capture'.packet.vendor_ies =
             IF CurLen >= 3 /\ Len(capture.packet.vendor_ies) < 3
             THEN Append(capture.packet.vendor_ies,
                         [oui |-> SubSeq(CurValue, 1, 3),
                          vendor_type |-> IF CurLen > 3 THEN CurValue[4] ELSE 0,
                          payload_len |-> Min(Len(SubSeq(CurValue, 5, CurLen)), 64),
                          payload |-> Take(SubSeq(CurValue, 5, CurLen), 64),
                          meaning |-> ""])
             ELSE capture.packet.vendor_ies
        /\ Len(capture.packet.ies_raw) < 15 =>
             /\ Len(capture'.packet.ies_raw) = Len(capture.packet.ies_raw) + 1
             /\ capture'.packet.ies_raw[Len(capture'.packet.ies_raw)].id = 221
             /\ capture'.packet.ies_raw[Len(capture'.packet.ies_raw)].len = CurLen
    ]_vars

\* four vendor elements were parsed: three are in the list, all in the catalogue
C9_Witness ==
  /\ Emitted
  /\ Len(out[1].vendor_ies) = 3
  /\ Cardinality({i \in 1..Len(out[1].ies_raw) :
                    out[1].ies_raw[i].id = 221 /\ out[1].ies_raw[i].len >= 3}) >= 4

\* C10: the HT flag is set iff an element with tag 45 and length >= 26 was
\* parsed, the VHT flag iff one with tag 191 and length >= 12 was; a shorter
\* one is catalogued and leaves the flag false.
C10_CapabilityFlags ==
  /\ capture.packet.ht_present <=>
       \E i \in 1..Len(capture.packet.ies_raw) :
         capture.packet.ies_raw[i].id = 45 /\ capture.packet.ies_raw[i].len >= 26
  /\ capture.packet.vht_capabilities <=>
       \E i \in 1..Len(capture.packet.ies_raw) :
         capture.packet.ies_raw[i].id = 191 /\ capture.packet.ies_raw[i].len >= 12
  /\ Emitted =>
       /\ out[1].ht_capabilities.null = ~capture.packet.ht_present
       /\ out[1].vht_capabilities.null = ~capture.packet.vht_capabilities

\* a 25-byte HT element and a 12-byte VHT element were parsed
C10_Witness ==
  /\ Emitted
  /\ \E i \in 1..Len(out[1].ies_raw) :
       out[1].ies_raw[i].id = 45 /\ out[1].ies_raw[i].len = 25
  /\ \E i \in 1..Len(out[1].ies_raw) :
       out[1].ies_raw[i].id = 191 /\ out[1].ies_raw[i].len = 12
  /\ out[1].ht_capabilities.null
  /\ ~out[1].vht_capabilities.null

(* ------------------------------------------------------------------ *)
(* Properties of the records of a session                              *)
(* ------------------------------------------------------------------ *)
\* the printed records, and the three things a signature is made of
Doc(i) == serial[i].doc
DocHt(d) == ~d.ht_capabilities.null
DocOuis(d) == [k \in 1..Len(d.vendor_ies) |-> d.vendor_ies[k].oui]
DocRates(d) == d.supported_rates

\* a number below 1000 in decimal, digit by digit
RefDigit(n) == SubSeq("0123456789", n + 1, n + 1)
RefDec(n) ==
  (IF n >= 100 THEN RefDigit(n \div 100) ELSE "")
  \o (IF n >= 10 THEN RefDigit((n \div 10) % 10) ELSE "")
  \o RefDigit(n % 10)

RECURSIVE RefVendors(_)
RefVendors(ouis) ==
  IF ouis = <<>> THEN ""
  ELSE "VENDOR(" \o Head(ouis) \o ")+" \o RefVendors(Tail(ouis))

RECURSIVE RefRateList(_)
RefRateList(rates) ==
  IF rates = <<>> THEN ""
  ELSE RefDec(Head(rates))
       \o (IF Tail(rates) = <<>> THEN "" ELSE ",")
       \o RefRateList(Tail(rates))

\* the signature as the specification words it
RefSignature(ht, ouis, rates) ==
  (IF ht THEN "HT+" ELSE "")
  \o RefVendors(ouis)
  \o (IF rates = <<>> THEN "" ELSE "rates(" \o RefRateList(rates) \o ")")

\* C11: every printed record's ie_signature is the rendering of its HT flag,
\* its vendor OUIs in order and its supported rates, and two records that
\* agree on these three carry the same signature.
C11_FingerprintIndependence ==
  /\ \A i \in 1..Len(serial) :
       Doc(i).fingerprint.ie_signature =
         RefSignature(DocHt(Doc(i)), DocOuis(Doc(i)), DocRates(Doc(i)))
  /\ \A i, j \in 1..Len(serial) :
       (/\ DocHt(Doc(i)) = DocHt(Doc(j))
        /\ DocOuis(Doc(i)) = DocOuis(Doc(j))
        /\ DocRates(Doc(i)) = DocRates(Doc(j)))
       => Doc(i).fingerprint.ie_signature = Doc(j).fingerprint.ie_signature

\* two records with the same rates but another source address, SSID and
\* channel carry the same signature
C11_Witness ==
  \E i, j \in 1..Len(serial) :
    /\ Doc(i).ieee80211.sa # Doc(j).ieee80211.sa
    /\ Doc(i).probe.ssid # Doc(j).probe.ssid
    /\ Doc(i).radio.channel # Doc(j).radio.channel
    /\ Doc(i).fingerprint.ie_signature = "rates(2,4,11,22)"
    /\ Doc(j).fingerprint.ie_signature = "rates(2,4,11,22)"

\* a record without the two fields that name the moment of its capture
SansIds(d) == [d EXCEPT !.pkt_id = <<>>, !.capture_ts = <<>>]

\* C12: two records of a session printed for the same frame bytes, RSSI and
\* channel are equal in every field but pkt_id and capture_ts.
C12_Idempotent ==
  \A i, j \in 1..Len(serial) :
    (/\ serial[i].frame = serial[j].frame
     /\ serial[i].rssi = serial[j].rssi
     /\ serial[i].channel = serial[j].channel)
    => SansIds(Doc(i)) = SansIds(Doc(j))

\* the source address (addr2) of the delivered frame
SrcOf == SubSeq(rx.frame, 11, 16)

\* one octet as two upper-case hex digits
RefHexU(b) ==
  SubSeq("0123456789ABCDEF", (b \div 16) + 1, (b \div 16) + 1)
  \o SubSeq("0123456789ABCDEF", (b % 16) + 1, (b % 16) + 1)

RefOui(sa) == RefHexU(sa[1]) \o ":" \o RefHexU(sa[2]) \o ":" \o RefHexU(sa[3])

\* the name of the first table entry with this OUI, if there is one
RECURSIVE RefLookup(_, _)
RefLookup(table, oui) ==
  IF table = <<>> THEN "Unknown"
  ELSE IF Head(table)[1] = oui THEN Head(table)[2]
  ELSE RefLookup(Tail(table), oui)

\* C13: while a frame is decoded and when its record is printed,
\* mac_randomized is bit 1 of the first octet of the source address and
\* vendor_inferred is the name of the first table entry whose OUI is the
\* first three octets in upper-case hex, "Unknown" without one; 00:1B:63 is
\* "Apple".
C13_DeviceInference ==
  /\ pc \in {"ies", "emit"} =>
       /\ capture.packet.mac_randomized = ((SrcOf[1] \div 2) % 2 = 1)
       /\ capture.packet.vendor_inferred = RefLookup(known_vendors, RefOui(SrcOf))
  /\ Emitted =>
       /\ out[1].mac_randomized = ((SrcOf[1] \div 2) % 2 = 1)
       /\ out[1].vendor_inferred = RefLookup(known_vendors, RefOui(SrcOf))
       /\ SubSeq(SrcOf, 1, 3) = <<0, 27, 99>> => out[1].vendor_inferred = "Apple"

\* a record for the source address e8:50:8b:01:02:03: the last table entry,
\* matched through upper-case letters, and not randomized
C13_Witness ==
  /\ Emitted
  /\ SubSeq(SrcOf, 1, 3) = <<232, 80, 139>>
  /\ out[1].vendor_inferred = "Samsung"
  /\ ~out[1].mac_randomized

\* C14: packet_counter counts the records of the session (one more while a
\* record is being decoded), the i-th record carries the count i - 1 in its
\* pkt_id, any two records carry different pkt_ids, and all carry the
\* session's capture_id.
C14_PacketIds ==
  /\ packet_counter = Len(serial) + (IF pc \in {"ies", "emit"} THEN 1 ELSE 0)
  /\ \A i \in 1..Len(serial) :
       /\ Doc(i).pkt_id[2] + 65536 * Doc(i).pkt_id[3] = i - 1
       /\ Doc(i).capture_id = Doc(1).capture_id
       /\ Doc(i).capture_id = current_capture_id
  /\ \A i, j \in 1..Len(serial) : i # j => Doc(i).pkt_id # Doc(j).pkt_id

\* two records were printed in one session, both for the same frame
C14_Witness ==
  /\ Len(serial) = 2
  /\ packet_counter = 2
  /\ serial[1].frame = serial[2].frame
  /\ Doc(1).pkt_id # Doc(2).pkt_id
  /\ pc = "idle"

\* a step of the receive callback: it runs from start to end at one instant
Delivered == pc = "idle" /\ now' = now

\* the callback is handed a probe request while the rate limit is closed
EarlyProbe ==
  /\ Delivered
  /\ rx'.mgmt
  /\ (rx'.frame_ctrl \div 4) % 4 = 0
  /\ (rx'.frame_ctrl \div 16) % 16 = 4
  /\ now - last_process <= 10

\* the decoder is invoked only when more than 10 ms have passed since the
\* previous invocation ended, and two printed records are more than 10 ms apart
InvokedAfterGap ==
  /\ (pc = "idle" /\ pc' = "parse") => now - last_process > 10
  /\ (pc \in {"parse", "emit"} /\ pc' = "idle") => last_process' = now
  /\ \A i \in 1..(Len(serial') - 1) : serial'[i + 1].at - serial'[i].at > 10

\* what the callback does with a probe request it does not decode
CountedNotDecoded ==
  /\ stats'.total_packets = stats.total_packets + 1
  /\ stats'.probe_requests = stats.probe_requests + 1
  /\ pc' = "idle"
  /\ out' = <<>>
  /\ serial' = serial
  /\ last_process' = last_process

\* C15 as stated: the decoder is invoked only after the gap, and every probe
\* request that arrives sooner is counted and not decoded.
C15_AsStated ==
  [][InvokedAfterGap /\ (EarlyProbe => CountedNotDecoded)]_vars

\* C15 amended: the decoder is invoked only after the gap, and every probe
\* request that arrives sooner while the free-heap guard passes is counted
\* and not decoded; with too little free heap it is not even counted.
C15_RateLimit ==
  [][ /\ InvokedAfterGap
      /\ (EarlyProbe /\ ~rx'.heap_low) => CountedNotDecoded
      /\ (EarlyProbe /\ rx'.heap_low) =>
           (stats' = stats /\ pc' = "idle" /\ serial' = serial
            /\ last_process' = last_process)
    ]_vars

\* after a record, a probe request came exactly 10 ms later with enough free
\* heap: it was counted, not decoded, and last_process still names the record
C15_Witness ==
  /\ Len(serial) = 1
  /\ pc = "idle"
  /\ rx.mgmt /\ ~rx.heap_low
  /\ now - serial[1].at = 10
  /\ last_process = serial[1].at
  /\ stats.probe_requests = 2
  /\ stats.total_packets = 2
  /\ out = <<>>

\* C16: every evaluation of the IE loop either leaves the loop with the
\* record and the cursor untouched, or adds exactly one catalogue entry and
\* advances the cursor by 2 + length, at least 2; the catalogue never holds
\* more than 15 entries, so the loop runs at most 15 times; a truncated
\* element leaves the loop; and the loop, once entered, is left.
C16_ParserTerminates ==
  /\ [][ pc = "ies" =>
          \/ pc' = "emit" /\ capture' = capture /\ offset' = offset
          \/ /\ pc' = "ies"
             /\ Len(capture'.packet.ies_raw) = Len(capture.packet.ies_raw) + 1
             /\ offset' = offset + 2 + CurLen
             /\ offset' >= offset + 2
             /\ ~TruncatedAt(CurPayload, offset)
       ]_vars
  /\ [](Len(capture.packet.ies_raw) <= 15)
  /\ (pc = "ies") ~> (pc = "emit")

\* the loop was left after 15 iterations with elements still unparsed
C16_Witness ==
  /\ pc = "emit"
  /\ Len(capture.packet.ies_raw) = 15
  /\ offset + 2 < Len(CurPayload)
  /\ ~TruncatedAt(CurPayload, offset)

\* from any moment up to this one, loop() is followed for 14 more switches
HopHorizon ==
  SetupDelayMs + MaxUptimeMs
  - (13 + 1) * (500 + 2 * MaxLoopLag * LoopDelayMs)

\* C17: current_channel stays in 1..13 and stats.current_channel equals it;
\* a switch moves it to the next channel, 13 to 1, and happens only when
\* more than 500 ms have passed since the last one; and from any moment up
\* to the horizon, with loop() running, every channel is left (if it is the
\* current one) and selected again.
C17_ChannelHopping ==
  /\ [](current_channel \in 1..13 /\ stats.current_channel = current_channel)
  /\ [][ current_channel' # current_channel =>
           /\ current_channel' = IF current_channel = 13 THEN 1
                                  ELSE current_channel + 1
           /\ now - last_channel_switch > 500
           /\ last_channel_switch' = now
       ]_vars
  /\ \A c \in 1..13 :
       [](now <= HopHorizon => <>(current_channel # c /\ <>(current_channel = c)))

\* the radio went round: it is back on channel 1 after 13 switches
C17_Witness ==
  /\ current_channel = 1
  /\ stats.current_channel = 1
  /\ last_channel_switch >= SetupDelayMs + 12 * 500
  /\ now <= HopHorizon
====
